---- MODULE Spec2Model ----
(***************************************************************************)
(* A model of csuite's growable byte buffer (engine/main/buffer.c).        *)
(*                                                                         *)
(* The heap is a set of storage blocks named by their address; a CBuffer   *)
(* is a struct (byte_length, capacity, data) held in one of the caller's   *)
(* slots.  size_t is SizeBits wide, so every size_t computation of the     *)
(* code is reduced modulo 2^SizeBits exactly where the C code wraps.  int  *)
(* is modelled with the same width as size_t (an ILP32-style build).       *)
(***************************************************************************)
EXTENDS Integers, Sequences, FiniteSets, TLC

\* ---------------------------------------------------------------- bounds
SizeBits == 7
MaxBufs == 2
MaxOps == 3

\* ------------------------------------------------------ program constants
CBUFFER_DEFAULT_CAPACITY == 64
CBUFFER_GROWTH_FACTOR == 2

Mod == 2 ^ SizeBits
SIZE_MAX == Mod - 1

Slots == 1 .. MaxBufs
Addrs == 1 .. (MaxBufs + 1)

VARIABLES
  bufs,     \* slot -> the CBuffer struct the caller holds there (or none)
  heap,     \* address -> storage block obtained from malloc/realloc
  origin,   \* slot -> how the buffer in it was made (history)
  written,  \* slot -> sum of the src_len of the writes that reported success
  last,     \* the last call: its arguments, what it saw and what it returned
  nops,     \* number of calls made
  status    \* "running", "crashed" (killed inside a call) or "hung"

vars == <<bufs, heap, origin, written, last, nops, status>>

\* ------------------------------------------------------------- data model
NoBuf == [live |-> FALSE, byte_length |-> 0, capacity |-> 0, data |-> 0]
FreeBlock == [live |-> FALSE, size |-> 0, mem |-> << >>]
NoOrigin == [kind |-> "none", parent |-> 0, given |-> << >>]

CBuffer(len, cap, addr) ==
  [live |-> TRUE, byte_length |-> len, capacity |-> cap, data |-> addr]

Min(a, b) == IF a < b THEN a ELSE b

\* The byte a read of an uninitialised or foreign location yields in the model.
Indeterminate == -1

\* mem[0 .. n-1] of a block, as the sequence of its first n bytes.
Pad(n) == [i \in 1 .. n |-> Indeterminate]

Prefix(mem, n) ==
  IF n <= Len(mem) THEN SubSeq(mem, 1, n) ELSE mem \o Pad(n - Len(mem))

\* The bytes a buffer exposes: data[0 .. byte_length-1].
View(h, b) ==
  IF b.live /\ b.data \in Addrs /\ h[b.data].live
    THEN Prefix(h[b.data].mem, b.byte_length)
    ELSE << >>

\* memcpy(mem + off, src, Len(src)) on the initialised extent of a block.
WriteAt(mem, off, src) ==
  Prefix(mem, off) \o src \o
    (IF Len(mem) > off + Len(src)
       THEN SubSeq(mem, off + Len(src) + 1, Len(mem))
       ELSE << >>)

\* malloc: the block it returns (the lowest free address).
Malloc(h) == CHOOSE a \in Addrs : ~h[a].live /\ \A c \in Addrs : c < a => h[c].live

\* (int) x for a size_t x.
ToInt(x) == IF x < Mod \div 2 THEN x ELSE x - Mod

\* The caller's source arrays: byte i is base + i * step (mod 256).
Zeros == <<0, 0>>
Ramp == <<250, 3>>
Patterns == {Zeros, Ramp}
Src(p, n) == [i \in 1 .. n |-> (p[1] + p[2] * (i - 1)) % 256]

\* ------------------------------------------------------------ cbuffer_alloc
\* Fault variant: the zero capacity is taken as it is.
AllocCapacity_NoDefault(capacity) == capacity

AllocCapacity(capacity) ==
  IF capacity > 0 THEN capacity ELSE CBUFFER_DEFAULT_CAPACITY

\* ok = FALSE: one of the two malloc calls returned NULL.
cbuffer_alloc(h, capacity, ok) ==
  IF ~ok THEN [ret |-> NoBuf, heap |-> h]
  ELSE LET c == AllocCapacity(capacity)
           a == Malloc(h)
       IN [ret |-> CBuffer(0, c, a),
           heap |-> [h EXCEPT ![a] = [live |-> TRUE, size |-> c, mem |-> << >>]]]

\* ------------------------------------------------------------- cbuffer_from
\* Fault variant: the copy is given at least the default capacity.
FromCapacity_Headroom(src_len) ==
  IF src_len < CBUFFER_DEFAULT_CAPACITY THEN CBUFFER_DEFAULT_CAPACITY ELSE src_len

FromCapacity(src_len) == src_len

\* source is the memory the pointer names (at least src_len bytes of it).
cbuffer_from(h, srcNull, source, src_len, ok) ==
  IF srcNull \/ src_len = 0 THEN cbuffer_alloc(h, CBUFFER_DEFAULT_CAPACITY, ok)
  ELSE IF ~ok THEN [ret |-> NoBuf, heap |-> h]
  ELSE LET a == Malloc(h)
       IN [ret |-> CBuffer(src_len, FromCapacity(src_len), a),
           heap |-> [h EXCEPT ![a] = [live |-> TRUE, size |-> src_len,
                                      mem |-> Prefix(source, src_len)]]]

\* ------------------------------------------------------------ cbuffer_clone
\* Fault variant: the clone is a copy of the struct, data pointer included.
cbuffer_clone_Shallow(h, b, ok) ==
  IF ~ok THEN [ret |-> NoBuf, heap |-> h] ELSE [ret |-> b, heap |-> h]

cbuffer_clone(h, b, ok) ==
  cbuffer_from(h, FALSE, h[b.data].mem, b.byte_length, ok)

\* --------------------------------------------------------- cbuffer_subarray
\* Fault variant: end = 0 is taken literally.
SubarrayEnd_Literal(end, byte_length) ==
  IF end > byte_length THEN byte_length ELSE end

SubarrayEnd(end, byte_length) ==
  IF end = 0 \/ end > byte_length THEN byte_length ELSE end

\* The memory at data + start.
MemFrom(mem, start) ==
  [i \in 1 .. (IF Len(mem) > start THEN Len(mem) - start ELSE 0) |-> mem[start + i]]

cbuffer_subarray(h, b, start, end, ok) ==
  LET e == SubarrayEnd(end, b.byte_length)
  IN IF start >= b.byte_length \/ start >= e
       THEN cbuffer_alloc(h, 0, ok)
       ELSE cbuffer_from(h, FALSE, MemFrom(h[b.data].mem, start), e - start, ok)

\* -------------------------------------------------- cbuffer_ensure_capacity
\* Fault variant: the buffer is never grown.
EnsureNoop_Always(capacity, size) == TRUE

EnsureNoop(capacity, size) == capacity >= size

\* The doubling loop.  After SizeBits doublings without the reset to size the
\* value is capacity * 2^SizeBits mod 2^SizeBits = 0, and it stays 0 from
\* then on; so a loop still running after SizeBits + 1 iterations never ends:
\* done = FALSE says the loop does not terminate.
RECURSIVE GrowLoop(_, _, _, _)
GrowLoop(new_capacity, capacity, size, fuel) ==
  IF ~(new_capacity < size) THEN [done |-> TRUE, cap |-> new_capacity]
  ELSE IF fuel = 0 THEN [done |-> FALSE, cap |-> new_capacity]
  ELSE LET doubled == (new_capacity * CBUFFER_GROWTH_FACTOR) % Mod
       IN GrowLoop(IF doubled < capacity THEN size ELSE doubled,
                   capacity, size, fuel - 1)

\* Fault variant: data and capacity are assigned before the NULL test.
OnReallocFail_Assigned(b, new_capacity) ==
  [b EXCEPT !.capacity = new_capacity, !.data = 0]

\* realloc returned NULL: the struct the code leaves behind.
OnReallocFail(b, new_capacity) == b

\* realloc(old, n) that succeeded and returned address new.
Realloc(h, old, new, n) ==
  IF new = old THEN [h EXCEPT ![old].size = n]
  ELSE [h EXCEPT ![new] = [live |-> TRUE, size |-> n, mem |-> h[old].mem],
                 ![old] = FreeBlock]

ReallocOutcomes == {"fail", "inplace", "move"}

cbuffer_ensure_capacity(h, b, size, outcome) ==
  IF EnsureNoop(b.capacity, size)
    THEN [ret |-> 0, buf |-> b, heap |-> h, hung |-> FALSE, failed |-> FALSE]
  ELSE LET g == GrowLoop(b.capacity, b.capacity, size, SizeBits + 1)
       IN IF ~g.done
            THEN [ret |-> 0, buf |-> b, heap |-> h, hung |-> TRUE, failed |-> FALSE]
          ELSE IF outcome = "fail"
            THEN [ret |-> -1, buf |-> OnReallocFail(b, g.cap), heap |-> h,
                  hung |-> FALSE, failed |-> TRUE]
          ELSE LET a == IF outcome = "move" THEN Malloc(h) ELSE b.data
               IN [ret |-> 0,
                   buf |-> [b EXCEPT !.data = a, !.capacity = g.cap],
                   heap |-> Realloc(h, b.data, a, g.cap),
                   hung |-> FALSE, failed |-> FALSE]

\* ------------------------------------------------------------ cbuffer_write
\* The memcpy of src_len bytes to data + byte_length stays inside the block
\* only if src_len <= capacity - byte_length.  When tr_size wrapped it does
\* not: the copy runs past the block, which is undefined behaviour.  ub picks
\* the outcome: the process is killed inside the copy ("crash"), or the copy
\* returns and the code goes on to its assignments ("return").
UbOutcomes == {"crash", "return"}

cbuffer_write(h, b, srcNull, source, src_len, outcome, ub) ==
  IF srcNull \/ src_len = 0
    THEN [ret |-> 0, buf |-> b, heap |-> h, status |-> "running",
          failed |-> FALSE, oob |-> FALSE, tr_size |-> b.byte_length, ensured |-> FALSE]
  ELSE LET tr_size == (b.byte_length + src_len) % Mod
           e == cbuffer_ensure_capacity(h, b, tr_size, outcome)
           room == e.buf.capacity - e.buf.byte_length
           oob == src_len > room
       IN IF e.hung
            THEN [ret |-> 0, buf |-> b, heap |-> h, status |-> "hung",
                  failed |-> FALSE, oob |-> FALSE, tr_size |-> tr_size, ensured |-> FALSE]
          ELSE IF e.ret # 0
            THEN [ret |-> -1, buf |-> e.buf, heap |-> e.heap, status |-> "running",
                  failed |-> TRUE, oob |-> FALSE, tr_size |-> tr_size, ensured |-> FALSE]
          ELSE IF oob /\ ub = "crash"
            THEN [ret |-> 0, buf |-> e.buf, heap |-> e.heap, status |-> "crashed",
                  failed |-> FALSE, oob |-> TRUE, tr_size |-> tr_size, ensured |-> TRUE]
          ELSE [ret |-> ToInt(src_len),
                buf |-> [e.buf EXCEPT !.byte_length = tr_size],
                heap |-> [e.heap EXCEPT ![e.buf.data].mem =
                            WriteAt(@, e.buf.byte_length,
                                    Prefix(source, IF room < 0 THEN 0 ELSE Min(src_len, room)))],
                status |-> "running", failed |-> FALSE, oob |-> oob,
                tr_size |-> tr_size, ensured |-> TRUE]

\* ------------------------------------------------------------- scalar codec
\* A scalar of type T is held as the sequence of its bytes in memory order;
\* the value 0 is the sequence of zero bytes.
ZeroValue(size) == [i \in 1 .. size |-> 0]

CBUFFER_BOUNDS_CHECK(b, offset, size) ==
  IF b.live /\ offset <= b.byte_length /\ (b.byte_length - offset) >= size
    THEN 0 ELSE -1

\* swap_endian_16/32/64: byte i of the result is byte size-1-i of the value.
swap_endian(value) == [i \in 1 .. Len(value) |-> value[Len(value) + 1 - i]]

CBUFFER_READ_VALUE(h, b, offset, size) ==
  IF CBUFFER_BOUNDS_CHECK(b, offset, size) # 0 THEN ZeroValue(size)
  ELSE swap_endian([i \in 1 .. size |-> Prefix(h[b.data].mem, offset + size)[offset + i]])

\* The macro spells the copy "mempcy"; it is modelled as the memcpy it means.
CBUFFER_WRITE_VALUE(h, b, offset, size, value) ==
  IF CBUFFER_BOUNDS_CHECK(b, offset, size) # 0 THEN [ret |-> 0, heap |-> h]
  ELSE [ret |-> 0,
        heap |-> [h EXCEPT ![b.data].mem = WriteAt(@, offset, swap_endian(value))]]

\* ------------------------------------------------------------ cbuffer_to_hex
NUL == "NUL"
HexChars == <<"0", "1", "2", "3", "4", "5", "6", "7",
              "8", "9", "a", "b", "c", "d", "e", "f">>

\* sprintf(p, "%02x", v) for a byte v: two digits and the terminator.
Sprintf02x(v) == <<HexChars[(v \div 16) + 1], HexChars[(v % 16) + 1], NUL>>

\* The loop, unrolled: iteration i writes Sprintf02x(data[i]) at hex_str + 2i,
\* and its terminator is overwritten by iteration i + 1, so that character k
\* of the result is a digit of data[k / 2] for k < 2 * len, the terminator of
\* the last iteration for k = 2 * len (if there was an iteration), and what
\* hex_str held before otherwise.
HexLoop(len, data, hex_str) ==
  LET end == IF len > 0 THEN 2 * len + 1 ELSE 0
      n == IF Len(hex_str) > end THEN Len(hex_str) ELSE end
  IN [k \in 1 .. n |->
        IF k <= 2 * len THEN Sprintf02x(data[(k + 1) \div 2])[2 - (k % 2)]
        ELSE IF k = end THEN Sprintf02x(data[len])[3]
        ELSE hex_str[k]]

\* What the bytes malloc returns may hold before they are written.
UninitChars == {NUL, "?"}

\* malloc(len * 2 + 1) is computed in size_t.  When it wraps the block is
\* shorter than what the loop writes, and the sprintf calls run past it:
\* undefined behaviour, the process is killed or the call returns.
cbuffer_to_hex(data, len, uninit, ok, ub) ==
  LET size == (len * 2 + 1) % Mod
      oob == len * 2 + 1 > size
  IN IF ~ok THEN [null |-> TRUE, str |-> << >>, status |-> "running"]
     ELSE IF oob /\ ub = "crash"
       THEN [null |-> TRUE, str |-> << >>, status |-> "crashed"]
     ELSE [null |-> FALSE,
           str |-> HexLoop(len, data, [k \in 1 .. size |-> uninit]),
           status |-> "running"]

\* ------------------------------------------------------------- cbuffer_free
cbuffer_free(h, b) ==
  IF b.live /\ b.data \in Addrs THEN [h EXCEPT ![b.data] = FreeBlock] ELSE h

\* ------------------------------------------------------------------ inputs
GrowCap == Mod \div 3 + 1
AllocCaps == {0, GrowCap}
\* <<source is NULL, pattern of the source, src_len>>
FromInputs ==
  {<<TRUE, Ramp, 3>>, <<FALSE, Ramp, 0>>, <<FALSE, Ramp, 3>>, <<FALSE, Zeros, 8>>}
WriteInputs == FromInputs \cup {<<FALSE, Ramp, SIZE_MAX>>}
EnsureSizes == {5, 2 * GrowCap + 1, SIZE_MAX}
CodecSizes == {2, 4, 8}
CodecOffsets == {0, 1, 7, SIZE_MAX}
SubStarts == {0, 1, 3}
SubEnds == {0, 2, SIZE_MAX}

\* ------------------------------------------------------------------- state
Init ==
  /\ bufs = [s \in Slots |-> NoBuf]
  /\ heap = [a \in Addrs |-> FreeBlock]
  /\ origin = [s \in Slots |-> NoOrigin]
  /\ written = [s \in Slots |-> 0]
  /\ last = [op |-> "init", slot |-> 0]
  /\ nops = 0
  /\ status = "running"

\* realloc is reached, and its outcome drawn, only when the buffer must grow.
ReallocChoices(b, size) ==
  IF EnsureNoop(b.capacity, size) THEN {"inplace"} ELSE ReallocOutcomes

Running == status = "running" /\ nops < MaxOps

HasFreeSlot == \E s \in Slots : ~bufs[s].live
FreeSlot == CHOOSE s \in Slots : ~bufs[s].live /\ \A t \in Slots : t < s => bufs[t].live

\* The caller stores the pointer a constructor returned (NULL: nothing stored).
Store(t, r, o) ==
  /\ heap' = r.heap
  /\ bufs' = IF r.ret.live THEN [bufs EXCEPT ![t] = r.ret] ELSE bufs
  /\ origin' = IF r.ret.live THEN [origin EXCEPT ![t] = o] ELSE origin
  /\ written' = IF r.ret.live THEN [written EXCEPT ![t] = 0] ELSE written
  /\ nops' = nops + 1
  /\ status' = status

Alloc ==
  /\ Running /\ HasFreeSlot
  /\ \E capacity \in AllocCaps, ok \in BOOLEAN :
       LET t == FreeSlot
           r == cbuffer_alloc(heap, capacity, ok)
       IN /\ Store(t, r, [kind |-> "alloc", parent |-> 0, given |-> << >>])
          /\ last' = [op |-> "alloc", slot |-> t, capacity |-> capacity,
                      ok |-> r.ret.live]

From ==
  /\ Running /\ HasFreeSlot
  /\ \E in \in FromInputs, ok \in BOOLEAN :
       LET t == FreeSlot
           srcNull == in[1]
           src_len == in[3]
           source == Src(in[2], src_len)
           r == cbuffer_from(heap, srcNull, source, src_len, ok)
           given == IF srcNull THEN << >> ELSE source
       IN /\ Store(t, r, [kind |-> "from", parent |-> 0, given |-> given])
          /\ last' = [op |-> "from", slot |-> t, given |-> given,
                      src_len |-> src_len, ok |-> r.ret.live]

Clone ==
  /\ Running /\ HasFreeSlot
  /\ \E s \in Slots, ok \in BOOLEAN :
       /\ bufs[s].live
       /\ LET t == FreeSlot
              r == cbuffer_clone(heap, bufs[s], ok)
          IN /\ Store(t, r, [kind |-> "clone", parent |-> s, given |-> << >>])
             /\ last' = [op |-> "clone", slot |-> t, src |-> s, pre |-> bufs[s],
                         preView |-> View(heap, bufs[s]), ok |-> r.ret.live]

Subarray ==
  /\ Running /\ HasFreeSlot
  /\ \E s \in Slots, start \in SubStarts, end \in SubEnds, ok \in BOOLEAN :
       /\ bufs[s].live
       /\ LET t == FreeSlot
              r == cbuffer_subarray(heap, bufs[s], start, end, ok)
          IN /\ Store(t, r, [kind |-> "subarray", parent |-> s, given |-> << >>])
             /\ last' = [op |-> "subarray", slot |-> t, src |-> s,
                         start |-> start, end |-> end, pre |-> bufs[s],
                         preView |-> View(heap, bufs[s]), ok |-> r.ret.live]

EnsureCapacityOf(sizes) ==
  /\ Running
  /\ \E s \in Slots, size \in sizes :
       /\ bufs[s].live
       /\ \E outcome \in ReallocChoices(bufs[s], size) :
          LET r == cbuffer_ensure_capacity(heap, bufs[s], size, outcome)
          IN /\ heap' = r.heap
             /\ bufs' = [bufs EXCEPT ![s] = r.buf]
             /\ status' = IF r.hung THEN "hung" ELSE status
             /\ last' = [op |-> "ensure", slot |-> s, size |-> size,
                         pre |-> bufs[s], preView |-> View(heap, bufs[s]),
                         ret |-> r.ret, failed |-> r.failed, hung |-> r.hung]
  /\ nops' = nops + 1
  /\ UNCHANGED <<origin, written>>

EnsureCapacity == EnsureCapacityOf(EnsureSizes)

\* ensure_capacity with any size_t as its size.
EnsureAnySize == EnsureCapacityOf(0 .. SIZE_MAX)

Write ==
  /\ Running
  /\ \E s \in Slots, in \in WriteInputs, ub \in UbOutcomes :
       /\ bufs[s].live
       /\ \E outcome \in ReallocChoices(bufs[s], (bufs[s].byte_length + in[3]) % Mod) :
          LET srcNull == in[1]
              src_len == in[3]
              r == cbuffer_write(heap, bufs[s], srcNull, Src(in[2], src_len),
                                 src_len, outcome, ub)
              returned == r.status = "running"
          IN /\ heap' = r.heap
             /\ bufs' = [bufs EXCEPT ![s] = r.buf]
             /\ status' = r.status
             /\ written' = IF returned /\ r.ret # -1 /\ ~srcNull
                             THEN [written EXCEPT ![s] = @ + src_len]
                             ELSE written
             /\ last' = [op |-> "write", slot |-> s, src_len |-> src_len,
                         srcNull |-> srcNull,
                         pre |-> bufs[s], preView |-> View(heap, bufs[s]),
                         ret |-> r.ret, failed |-> r.failed, oob |-> r.oob,
                         tr_size |-> r.tr_size, ensured |-> r.ensured,
                         hung |-> r.status = "hung", returned |-> returned]
  /\ nops' = nops + 1
  /\ UNCHANGED origin

Free ==
  /\ Running
  /\ \E s \in Slots :
       /\ bufs[s].live
       /\ heap' = cbuffer_free(heap, bufs[s])
       /\ bufs' = [bufs EXCEPT ![s] = NoBuf]
       /\ origin' = [t \in Slots |->
                       IF t = s THEN NoOrigin
                       ELSE IF origin[t].parent = s
                         THEN [origin[t] EXCEPT !.parent = 0]
                         ELSE origin[t]]
       /\ written' = [written EXCEPT ![s] = 0]
       /\ last' = [op |-> "free", slot |-> s, pre |-> bufs[s]]
  /\ nops' = nops + 1
  /\ UNCHANGED status

ReadValue ==
  /\ Running
  /\ \E s \in Slots, offset \in CodecOffsets, size \in CodecSizes :
       /\ bufs[s].live
       /\ last' = [op |-> "read_value", slot |-> s, offset |-> offset,
                   size |-> size,
                   bounds |-> CBUFFER_BOUNDS_CHECK(bufs[s], offset, size),
                   ret |-> CBUFFER_READ_VALUE(heap, bufs[s], offset, size)]
  /\ nops' = nops + 1
  /\ UNCHANGED <<bufs, heap, origin, written, status>>

WriteValue ==
  /\ Running
  /\ \E s \in Slots, offset \in CodecOffsets, size \in CodecSizes, p \in Patterns :
       /\ bufs[s].live
       /\ LET r == CBUFFER_WRITE_VALUE(heap, bufs[s], offset, size, Src(p, size))
          IN /\ heap' = r.heap
             /\ last' = [op |-> "write_value", slot |-> s, offset |-> offset,
                         size |-> size,
                         bounds |-> CBUFFER_BOUNDS_CHECK(bufs[s], offset, size),
                         ret |-> r.ret]
  /\ nops' = nops + 1
  /\ UNCHANGED <<bufs, origin, written, status>>

ToHex ==
  /\ Running
  /\ \E s \in Slots, uninit \in UninitChars, ok \in BOOLEAN, ub \in UbOutcomes :
       /\ bufs[s].live
       /\ LET view == View(heap, bufs[s])
              r == cbuffer_to_hex(view, bufs[s].byte_length, uninit, ok, ub)
          IN /\ status' = r.status
             /\ last' = [op |-> "to_hex", slot |-> s, view |-> view,
                         null |-> r.null, str |-> r.str]
  /\ nops' = nops + 1
  /\ UNCHANGED <<bufs, heap, origin, written>>

Next ==
  \/ Alloc
  \/ From
  \/ Clone
  \/ Subarray
  \/ EnsureCapacity
  \/ Write
  \/ Free

Spec == Init /\ [][Next]_vars

\* The growth of a fresh buffer: cbuffer_alloc(capacity) for every capacity,
\* followed by one call that grows it, for every size.
InitGrow ==
  /\ \E capacity \in 0 .. SIZE_MAX :
       LET r == cbuffer_alloc([a \in Addrs |-> FreeBlock], capacity, TRUE)
       IN /\ bufs = [s \in Slots |-> IF s = 1 THEN r.ret ELSE NoBuf]
          /\ heap = r.heap
          /\ last = [op |-> "alloc", slot |-> 1, capacity |-> capacity, ok |-> TRUE]
  /\ origin = [s \in Slots |->
                 IF s = 1 THEN [kind |-> "alloc", parent |-> 0, given |-> << >>]
                 ELSE NoOrigin]
  /\ written = [s \in Slots |-> 0]
  /\ nops = MaxOps - 1
  /\ status = "running"

NextGrow ==
  \/ EnsureAnySize
  \/ Write

SpecGrow == InitGrow /\ [][NextGrow]_vars

\* The scalar codec over buffers built by from and write.
NextCodec ==
  \/ From
  \/ Write
  \/ ReadValue
  \/ WriteValue

SpecCodec == Init /\ [][NextCodec]_vars

\* The hex conversion over buffers built by from and write.
NextHex ==
  \/ From
  \/ Write
  \/ ToHex

SpecHex == Init /\ [][NextHex]_vars

TypeOK ==
  /\ status \in {"running", "crashed", "hung"}
  /\ nops \in 0 .. MaxOps
  /\ \A s \in Slots : bufs[s].live => bufs[s].data \in Addrs

\* ================================================================= claims

Target == bufs[last.slot]
Grew == last.op = "ensure" /\ last.pre.capacity < last.size /\ last.ret = 0 /\ ~last.hung

\* C1: every live buffer has 0 <= byte_length <= capacity, after any sequence
\* of alloc, from, clone, subarray, ensure_capacity and write calls, failed
\* allocations and wrapped writes included.
C1_LengthWithinCapacity ==
  \A s \in Slots :
    bufs[s].live => 0 <= bufs[s].byte_length /\ bufs[s].byte_length <= bufs[s].capacity

\* A write whose byte_length + src_len wrapped has returned.
C1_Witness ==
  /\ last.op = "write" /\ last.returned /\ last.oob
  /\ Target.byte_length < last.pre.byte_length

\* C2: a buffer that started empty has, after each write, a byte_length equal
\* to the sum (as a mathematical integer) of the src_len of the writes that
\* did not report failure.
StartedEmpty(s) ==
  origin[s].kind = "alloc" \/ (origin[s].kind = "from" /\ origin[s].given = << >>)

C2_LengthIsSumOfWrites ==
  \A s \in Slots :
    bufs[s].live /\ StartedEmpty(s) => bufs[s].byte_length = written[s]

\* C3: a successful growth ends at old_capacity * 2^k for the smallest k >= 1
\* reaching minSize when that product is representable in size_t, and at
\* exactly minSize when a doubling overflows first.
RECURSIVE MathDoubling(_, _)
MathDoubling(c, size) == IF c >= size THEN c ELSE MathDoubling(2 * c, size)

C3_DoublingOrSnap ==
  Grew =>
    LET r == MathDoubling(2 * last.pre.capacity, last.size)
    IN Target.capacity = IF r <= SIZE_MAX THEN r ELSE last.size

\* C4: when realloc fails inside ensure_capacity (called directly or by
\* write) the call returns -1 and byte_length, capacity, the storage and
\* every stored byte are what they were before the call.
C4_FailedGrowthLeavesBuffer ==
  (last.op \in {"ensure", "write"} /\ last.failed) =>
    /\ last.ret = -1
    /\ Target = last.pre
    /\ heap[Target.data].live
    /\ View(heap, Target) = last.preView

\* A write into a non-empty buffer failed to grow it.
C4_Witness ==
  /\ last.op = "write" /\ last.failed
  /\ last.pre.byte_length > 0 /\ last.src_len > 0

\* C5 as stated: a successful clone has the length and the bytes of its
\* source and a capacity equal to its own length, for every length.
CloneCopies ==
  /\ Target.byte_length = last.pre.byte_length
  /\ View(heap, Target) = last.preView

C5_CloneCapacityIsLength ==
  (last.op = "clone" /\ last.ok) =>
    CloneCopies /\ Target.capacity = Target.byte_length

\* C5 as amended: a successful clone has the length and the bytes of its
\* source; its capacity is its length when the length is positive, and
\* CBUFFER_DEFAULT_CAPACITY when the source is empty.
C5_CloneCapacityAmended ==
  (last.op = "clone" /\ last.ok) =>
    /\ CloneCopies
    /\ Target.capacity = IF Target.byte_length = 0
                           THEN CBUFFER_DEFAULT_CAPACITY
                           ELSE Target.byte_length

\* A buffer with bytes and spare capacity has been cloned.
C5_Witness ==
  /\ last.op = "clone" /\ last.ok
  /\ last.pre.byte_length > 0
  /\ last.pre.capacity > last.pre.byte_length

\* C6: no two live buffers share storage, and a call on one buffer (write,
\* growth, free, or the making of a clone, subarray or copy) changes neither
\* the struct, the storage nor the bytes of any other buffer.
NoSharedStorage ==
  \A s \in Slots :
    bufs[s].live =>
      /\ bufs[s].data \in Addrs
      /\ heap[bufs[s].data].live
      /\ \A u \in Slots : (u # s /\ bufs[u].live) => bufs[u].data # bufs[s].data

IndependentStep ==
  /\ NoSharedStorage'
  /\ \A s \in Slots :
       s # last'.slot =>
         /\ bufs'[s] = bufs[s]
         /\ View(heap', bufs'[s]) = View(heap, bufs[s])

C7_Subarray ==
  (last.op = "subarray" /\ last.ok) =>
    LET L == last.pre.byte_length
        e == IF last.end = 0 \/ last.end > L THEN L ELSE last.end
        got == View(heap, Target)
    IN /\ IF last.start >= L \/ last.start >= e
            THEN Target.byte_length = 0
            ELSE /\ Target.byte_length = e - last.start
                 /\ \A i \in 0 .. (e - last.start - 1) :
                      got[i + 1] = last.preView[last.start + i + 1]
       /\ bufs[last.src] = last.pre
       /\ View(heap, bufs[last.src]) = last.preView

\* subarray(b, 1, 0) of a buffer of several bytes: the slice to the end.
C7_Witness ==
  /\ last.op = "subarray" /\ last.ok
  /\ last.start = 1 /\ last.end = 0
  /\ last.pre.byte_length > 2
  /\ Target.byte_length = last.pre.byte_length - 1

\* C8: a scalar read or write whose bounds check fails has an outcome no
\* successful call has: the read does not return the value zero, the write
\* does not return what a successful write returns (0).
C8_BoundsFailureDistinct ==
  /\ (last.op = "read_value" /\ last.bounds # 0) => last.ret # ZeroValue(last.size)
  /\ (last.op = "write_value" /\ last.bounds # 0) => last.ret # 0

\* C9: for every byte sequence S, the empty one included, the hex string of
\* from(S) is terminated, has exactly 2*|S| characters, and characters 2i,
\* 2i+1 are the lowercase hex digits of S[i], high nibble first.
LowerHex == {HexChars[k] : k \in 1 .. 16}
DigitValue(c) == (CHOOSE k \in 1 .. 16 : HexChars[k] = c) - 1

IsFromOf(s) ==
  origin[s].kind = "from" /\ written[s] = 0 /\ View(heap, bufs[s]) = origin[s].given

C9_HexOfFrom ==
  (last.op = "to_hex" /\ ~last.null /\ IsFromOf(last.slot)) =>
    LET S == origin[last.slot].given
        n == Len(S)
        str == last.str
    IN /\ Len(str) >= 2 * n + 1
       /\ str[2 * n + 1] = NUL
       /\ \A i \in 1 .. n :
            /\ str[2 * i - 1] \in LowerHex
            /\ str[2 * i] \in LowerHex
            /\ 16 * DigitValue(str[2 * i - 1]) + DigitValue(str[2 * i]) = S[i]

\* C10: the doubling loop of ensure_capacity always terminates, and a call
\* that reports success leaves capacity >= minSize (for write: the size it
\* asked for).
C10_GrowthTerminates ==
  /\ status # "hung"
  /\ (last.op = "ensure" /\ last.ret = 0) => Target.capacity >= last.size
  /\ (last.op = "write" /\ last.ensured) => Target.capacity >= last.tr_size

\* A growth whose first doubling already wraps size_t has succeeded.
C10_Witness ==
  /\ Grew
  /\ CBUFFER_GROWTH_FACTOR * last.pre.capacity > SIZE_MAX

====
